---- MODULE Spec2Model ----
(***************************************************************************)
(* Model of Graphics/TextureEnums.h (Rubbish Rush Engine, OTTER).          *)
(*                                                                         *)
(* The header declares GLint-backed enumerations and five constexpr        *)
(* derivation functions.  Enumeration values are modelled as the integers  *)
(* they are (the OpenGL constants named on the right-hand side of each     *)
(* enumerator), so a value outside the defined set is simply another       *)
(* integer.  Each function is an operator returning the value it returns   *)
(* and the logging macros it invokes on the way; the state machine lets    *)
(* several callers invoke the functions in any order and keeps, for each   *)
(* caller, the last call it completed.                                     *)
(*                                                                         *)
(* LOG_ASSERT and LOG_WARN are recorded as invocations (macro name, format *)
(* string, argument).  The function body continues after either macro, as  *)
(* the `return` statement following each of them in the source says.       *)
(***************************************************************************)
EXTENDS Integers, Sequences, FiniteSets

\* ---------------------------------------------------------------- bounds
\* Channel counts are drawn from -MaxChannels..MaxChannels (plus the two
\* extreme values of a 32-bit int).
MaxChannels == 6

\* The threads that call into the header.
Callers == {"t1", "t2"}

\* ------------------------------------------------- enum InternalFormat
InternalFormat_Unknown == 0
InternalFormat_R8 == 33321
InternalFormat_RG8 == 33323
InternalFormat_RGB8 == 32849
InternalFormat_RGBA8 == 32856

\* ---------------------------------------------------- enum PixelFormat
PixelFormat_Unknown == 0
PixelFormat_Red == 6403
PixelFormat_RG == 33319
PixelFormat_RGB == 6407
PixelFormat_SRGB == 35904
PixelFormat_BGR == 32992
PixelFormat_RGBA == 6408
PixelFormat_BGRA == 32993
PixelFormat_Depth == 6402
PixelFormat_DepthStencil == 34041

PixelFormatValues ==
    { PixelFormat_Unknown, PixelFormat_Red, PixelFormat_RG, PixelFormat_RGB,
      PixelFormat_SRGB, PixelFormat_BGR, PixelFormat_RGBA, PixelFormat_BGRA,
      PixelFormat_Depth, PixelFormat_DepthStencil }

\* ------------------------------------------------------ enum PixelType
PixelType_UByte == 5121
PixelType_Byte == 5120
PixelType_UShort == 5123
PixelType_Short == 5122
PixelType_UInt == 5125
PixelType_Int == 5124
PixelType_Float == 5126

PixelTypeValues ==
    { PixelType_UByte, PixelType_Byte, PixelType_UShort, PixelType_Short,
      PixelType_UInt, PixelType_Int, PixelType_Float }

\* ----------------------------------------------------------- inputs
\* A PixelType / PixelFormat is an enum over GLint: any GLint can be cast
\* to it.  Besides the enumerators, callers may pass an OpenGL constant
\* the enumeration does not list (GL_DOUBLE, GL_LUMINANCE).
PixelTypeInputs == PixelTypeValues \cup {5130}

PixelFormatInputs == PixelFormatValues \cup {6409}

ChannelInputs == (-MaxChannels .. MaxChannels) \cup {-2147483647 - 1, 2147483647}

\* ------------------------------------------------------- diagnostics
\* One invocation of a logging macro.
Diag(macro, fmt, arg) == [macro |-> macro, fmt |-> fmt, arg |-> arg]

\* What a call yields: the returned value and the macros invoked, in order.
Result(ret, diags) == [ret |-> ret, diags |-> diags]

\* ---------------------------------------------------------- functions
GetTexelComponentSize(type) ==
    CASE type \in {PixelType_UByte, PixelType_Byte} -> Result(1, <<>>)
      [] type \in {PixelType_UShort, PixelType_Short} -> Result(2, <<>>)
      [] type \in {PixelType_Int, PixelType_UInt} -> Result(4, <<>>)
      [] OTHER ->
           Result(0, <<Diag("LOG_ASSERT", "Unknown type: {}", type)>>)

\* Slip: case 3 returns the four-channel format.
GetInternalFormatForChannels8_Case3Slip(numChannels) ==
    CASE numChannels = 1 -> Result(InternalFormat_R8, <<>>)
      [] numChannels = 2 -> Result(InternalFormat_RG8, <<>>)
      [] numChannels = 3 -> Result(InternalFormat_RGBA8, <<>>)
      [] numChannels = 4 -> Result(InternalFormat_RGBA8, <<>>)
      [] OTHER ->
           Result(InternalFormat_Unknown,
                  <<Diag("LOG_WARN",
                         "Unsupported texture format with {0} channels",
                         numChannels)>>)

GetInternalFormatForChannels8(numChannels) ==
    CASE numChannels = 1 -> Result(InternalFormat_R8, <<>>)
      [] numChannels = 2 -> Result(InternalFormat_RG8, <<>>)
      [] numChannels = 3 -> Result(InternalFormat_RGB8, <<>>)
      [] numChannels = 4 -> Result(InternalFormat_RGBA8, <<>>)
      [] OTHER ->
           Result(InternalFormat_Unknown,
                  <<Diag("LOG_WARN",
                         "Unsupported texture format with {0} channels",
                         numChannels)>>)

\* Slip: the default branch asserts, as the two texel functions do.
GetPixelFormatForChannels_DefaultAsserts(numChannels) ==
    CASE numChannels = 1 -> Result(PixelFormat_Red, <<>>)
      [] numChannels = 2 -> Result(PixelFormat_RG, <<>>)
      [] numChannels = 3 -> Result(PixelFormat_RGB, <<>>)
      [] numChannels = 4 -> Result(PixelFormat_RGBA, <<>>)
      [] OTHER ->
           Result(PixelFormat_Unknown,
                  <<Diag("LOG_ASSERT",
                         "Unsupported texture format with {0} channels",
                         numChannels)>>)

\* Slip: case 4 returns the three-channel format.
GetPixelFormatForChannels_Case4Slip(numChannels) ==
    CASE numChannels = 1 -> Result(PixelFormat_Red, <<>>)
      [] numChannels = 2 -> Result(PixelFormat_RG, <<>>)
      [] numChannels = 3 -> Result(PixelFormat_RGB, <<>>)
      [] numChannels = 4 -> Result(PixelFormat_RGB, <<>>)
      [] OTHER ->
           Result(PixelFormat_Unknown,
                  <<Diag("LOG_WARN",
                         "Unsupported texture format with {0} channels",
                         numChannels)>>)

GetPixelFormatForChannels(numChannels) ==
    CASE numChannels = 1 -> Result(PixelFormat_Red, <<>>)
      [] numChannels = 2 -> Result(PixelFormat_RG, <<>>)
      [] numChannels = 3 -> Result(PixelFormat_RGB, <<>>)
      [] numChannels = 4 -> Result(PixelFormat_RGBA, <<>>)
      [] OTHER ->
           Result(PixelFormat_Unknown,
                  <<Diag("LOG_WARN",
                         "Unsupported texture format with {0} channels",
                         numChannels)>>)

\* Slip: DepthStencil counted as two components (depth and stencil).
GetTexelComponentCount_DepthStencilTwo(format) ==
    CASE format \in {PixelFormat_Depth, PixelFormat_Red} -> Result(1, <<>>)
      [] format \in {PixelFormat_RG, PixelFormat_DepthStencil} ->
           Result(2, <<>>)
      [] format \in {PixelFormat_RGB, PixelFormat_BGR} -> Result(3, <<>>)
      [] format \in {PixelFormat_RGBA, PixelFormat_BGRA} -> Result(4, <<>>)
      [] OTHER ->
           Result(0, <<Diag("LOG_ASSERT", "Unknown format: {}", format)>>)

GetTexelComponentCount(format) ==
    CASE format \in {PixelFormat_Depth, PixelFormat_DepthStencil,
                     PixelFormat_Red} -> Result(1, <<>>)
      [] format = PixelFormat_RG -> Result(2, <<>>)
      [] format \in {PixelFormat_RGB, PixelFormat_BGR} -> Result(3, <<>>)
      [] format \in {PixelFormat_RGBA, PixelFormat_BGRA} -> Result(4, <<>>)
      [] OTHER ->
           Result(0, <<Diag("LOG_ASSERT", "Unknown format: {}", format)>>)

\* Slip: the component count is evaluated only when the size is known.
GetTexelSize_ShortCircuit(format, type, typeFirst) ==
    LET size == GetTexelComponentSize(type)
        count == GetTexelComponentCount(format)
    IN  IF size.ret = 0 THEN size ELSE Result(size.ret * count.ret, count.diags)

\* The two operands of `*` are unsequenced: typeFirst says which of the two
\* sub-calls the build evaluates first, and so which logs first.
GetTexelSize(format, type, typeFirst) ==
    LET size == GetTexelComponentSize(type)
        count == GetTexelComponentCount(format)
    IN  Result(size.ret * count.ret,
               IF typeFirst THEN size.diags \o count.diags
                            ELSE count.diags \o size.diags)

\* -------------------------------------------------------------- state
VARIABLES last

vars == <<last>>

Call(fn, args, res) ==
    [fn |-> fn, args |-> args, ret |-> res.ret, diags |-> res.diags]

NoCall == [fn |-> "none", args |-> <<>>, ret |-> 0, diags |-> <<>>]

Init == last = [c \in Callers |-> NoCall]

CallGetTexelComponentSize(c, type) ==
    last' = [last EXCEPT ![c] =
                Call("GetTexelComponentSize", <<type>>,
                     GetTexelComponentSize(type))]

CallGetInternalFormatForChannels8(c, numChannels) ==
    last' = [last EXCEPT ![c] =
                Call("GetInternalFormatForChannels8", <<numChannels>>,
                     GetInternalFormatForChannels8(numChannels))]

\* Slip: the warning is suppressed once any caller has been warned (a
\* function-local "already warned" flag), so a call depends on earlier ones.
CallGetPixelFormatForChannels_WarnOnce(c, numChannels) ==
    LET res == GetPixelFormatForChannels(numChannels)
        warnedBefore == \E d \in Callers :
                           \E i \in DOMAIN last[d].diags :
                               last[d].diags[i].macro = "LOG_WARN"
    IN  last' = [last EXCEPT ![c] =
                    Call("GetPixelFormatForChannels", <<numChannels>>,
                         IF warnedBefore THEN Result(res.ret, <<>>)
                                         ELSE res)]

CallGetPixelFormatForChannels(c, numChannels) ==
    last' = [last EXCEPT ![c] =
                Call("GetPixelFormatForChannels", <<numChannels>>,
                     GetPixelFormatForChannels(numChannels))]

CallGetTexelComponentCount(c, format) ==
    last' = [last EXCEPT ![c] =
                Call("GetTexelComponentCount", <<format>>,
                     GetTexelComponentCount(format))]

CallGetTexelSize(c, format, type) ==
    \E typeFirst \in BOOLEAN :
        last' = [last EXCEPT ![c] =
                    Call("GetTexelSize", <<format, type>>,
                         GetTexelSize(format, type, typeFirst))]

Next ==
    \E c \in Callers :
        \/ \E type \in PixelTypeInputs : CallGetTexelComponentSize(c, type)
        \/ \E n \in ChannelInputs : CallGetInternalFormatForChannels8(c, n)
        \/ \E n \in ChannelInputs : CallGetPixelFormatForChannels(c, n)
        \/ \E format \in PixelFormatInputs :
               CallGetTexelComponentCount(c, format)
        \/ \E format \in PixelFormatInputs, type \in PixelTypeInputs :
               CallGetTexelSize(c, format, type)

Spec == Init /\ [][Next]_vars

\* ------------------------------------------------------------ helpers
Calls(fn) == {last[c] : c \in {d \in Callers : last[d].fn = fn}}

Asserted(r) == \E i \in DOMAIN r.diags : r.diags[i].macro = "LOG_ASSERT"

Warned(r) == \E i \in DOMAIN r.diags : r.diags[i].macro = "LOG_WARN"

\* The call returned without invoking any logging macro.
Silent(r) == r.diags = <<>>

\* The macros a call invoked, without their order.
DiagSet(r) == {r.diags[i] : i \in DOMAIN r.diags}

\* ------------------------------------------------------------- claims

\* C1: for each of the seven PixelType enumerators GetTexelComponentSize
\* returns UByte 1, Byte 1, UShort 2, Short 2, UInt 4, Int 4, Float 4.
C1_ComponentSizeTable ==
    \A r \in Calls("GetTexelComponentSize") :
        LET type == r.args[1] IN
        /\ type \in {PixelType_UByte, PixelType_Byte} => r.ret = 1
        /\ type \in {PixelType_UShort, PixelType_Short} => r.ret = 2
        /\ type \in {PixelType_UInt, PixelType_Int, PixelType_Float}
               => r.ret = 4

\* C2: GetTexelSize returns 4 for (RGBA, UByte), 12 for (RGB, Float) and
\* 2 for (Red, UShort).
C2_TexelSizeExamples ==
    \A r \in Calls("GetTexelSize") :
        /\ r.args = <<PixelFormat_RGBA, PixelType_UByte>> => r.ret = 4
        /\ r.args = <<PixelFormat_RGB, PixelType_Float>> => r.ret = 12
        /\ r.args = <<PixelFormat_Red, PixelType_UShort>> => r.ret = 2

\* C3: GetTexelComponentCount accepts each of the nine enumerators other
\* than Unknown: it returns a count in 1..4 without asserting; it asserts
\* and returns 0 only for Unknown or a value outside the enumeration.
C3_ComponentCountAcceptsNine ==
    \A r \in Calls("GetTexelComponentCount") :
        LET format == r.args[1] IN
        /\ format \in PixelFormatValues \ {PixelFormat_Unknown}
               => r.ret \in 1..4 /\ ~Asserted(r)
        /\ (Asserted(r) \/ r.ret = 0)
               => format \notin PixelFormatValues \ {PixelFormat_Unknown}

\* C4: GetTexelComponentCount returns Red 1, Depth 1, DepthStencil 1,
\* RG 2, RGB 3, BGR 3, RGBA 4, BGRA 4.
C4_ComponentCountTable ==
    \A r \in Calls("GetTexelComponentCount") :
        LET format == r.args[1] IN
        /\ format \in {PixelFormat_Red, PixelFormat_Depth,
                       PixelFormat_DepthStencil} => r.ret = 1
        /\ format = PixelFormat_RG => r.ret = 2
        /\ format \in {PixelFormat_RGB, PixelFormat_BGR} => r.ret = 3
        /\ format \in {PixelFormat_RGBA, PixelFormat_BGRA} => r.ret = 4

C4_Witness ==
    /\ \E r \in Calls("GetTexelComponentCount") :
           r.args = <<PixelFormat_BGRA>> /\ r.ret = 4
    /\ \E r \in Calls("GetTexelComponentCount") :
           r.args = <<PixelFormat_DepthStencil>> /\ r.ret = 1

\* C5: for channel counts 1, 2, 3, 4 GetInternalFormatForChannels8 returns
\* R8, RG8, RGB8, RGBA8 and GetPixelFormatForChannels returns Red, RG, RGB,
\* RGBA, and neither invokes a logging macro.
C5_ChannelTables ==
    /\ \A r \in Calls("GetInternalFormatForChannels8") :
           LET n == r.args[1] IN
           /\ n = 1 => r.ret = InternalFormat_R8 /\ Silent(r)
           /\ n = 2 => r.ret = InternalFormat_RG8 /\ Silent(r)
           /\ n = 3 => r.ret = InternalFormat_RGB8 /\ Silent(r)
           /\ n = 4 => r.ret = InternalFormat_RGBA8 /\ Silent(r)
    /\ \A r \in Calls("GetPixelFormatForChannels") :
           LET n == r.args[1] IN
           /\ n = 1 => r.ret = PixelFormat_Red /\ Silent(r)
           /\ n = 2 => r.ret = PixelFormat_RG /\ Silent(r)
           /\ n = 3 => r.ret = PixelFormat_RGB /\ Silent(r)
           /\ n = 4 => r.ret = PixelFormat_RGBA /\ Silent(r)

C5_Witness ==
    /\ \E r \in Calls("GetInternalFormatForChannels8") :
           r.args = <<4>> /\ r.ret = InternalFormat_RGBA8
    /\ \E r \in Calls("GetPixelFormatForChannels") :
           r.args = <<3>> /\ r.ret = PixelFormat_RGB

\* C6: for every channel count outside 1..4 both channel functions return
\* Unknown and invoke LOG_WARN; for no input at all do they invoke
\* LOG_ASSERT.
C6_ChannelsOutOfRange ==
    /\ \A r \in Calls("GetInternalFormatForChannels8") :
           /\ ~Asserted(r)
           /\ r.args[1] \notin 1..4
                  => r.ret = InternalFormat_Unknown /\ Warned(r)
    /\ \A r \in Calls("GetPixelFormatForChannels") :
           /\ ~Asserted(r)
           /\ r.args[1] \notin 1..4
                  => r.ret = PixelFormat_Unknown /\ Warned(r)

C6_Witness ==
    /\ \E r \in Calls("GetInternalFormatForChannels8") :
           r.args[1] < 0 /\ r.ret = InternalFormat_Unknown /\ Warned(r)
    /\ \E r \in Calls("GetPixelFormatForChannels") :
           r.args[1] > 4 /\ r.ret = PixelFormat_Unknown /\ Warned(r)

\* C7: GetTexelComponentSize asserts and returns 0 exactly when its input
\* is not one of the seven PixelType enumerators; for an enumerator it
\* returns 1, 2 or 4 without asserting.
C7_ComponentSizeFailsOnlyOutOfSet ==
    \A r \in Calls("GetTexelComponentSize") :
        LET type == r.args[1] IN
        /\ (Asserted(r) /\ r.ret = 0) <=> type \notin PixelTypeValues
        /\ type \in PixelTypeValues => r.ret \in {1, 2, 4} /\ ~Asserted(r)

\* C8: for every (format, type), enumerators or not, GetTexelSize returns
\* GetTexelComponentSize(type) * GetTexelComponentCount(format); it logs
\* nothing of its own; and it returns 0, with a sub-call's LOG_ASSERT
\* invoked, exactly when at least one of the two sub-calls fails.
C8_TexelSizeIsProduct ==
    \A r \in Calls("GetTexelSize") :
        LET size == GetTexelComponentSize(r.args[2])
            count == GetTexelComponentCount(r.args[1])
            subFails == Asserted(size) \/ Asserted(count)
        IN  /\ r.ret = size.ret * count.ret
            /\ DiagSet(r) = DiagSet(size) \cup DiagSet(count)
            /\ Len(r.diags) = Len(size.diags) + Len(count.diags)
            /\ (r.ret = 0) <=> subFails
            /\ Asserted(r) <=> subFails
            /\ \A s \in Calls("GetTexelComponentSize") :
                   s.args[1] = r.args[2]
                      => /\ DiagSet(s) \subseteq DiagSet(r)
                         /\ s.ret = 0 => r.ret = 0
            /\ \A s \in Calls("GetTexelComponentCount") :
                   s.args[1] = r.args[1]
                      => /\ DiagSet(s) \subseteq DiagSet(r)
                         /\ s.ret = 0 => r.ret = 0

\* Both sub-calls fail in one call, and only the second in another.
C8_Witness ==
    /\ \E r \in Calls("GetTexelSize") :
           r.args[2] \notin PixelTypeValues /\ Len(r.diags) = 2 /\ r.ret = 0
    /\ \E r \in Calls("GetTexelSize") :
           /\ r.args[2] = PixelType_UShort
           /\ r.args[1] \notin PixelFormatValues
           /\ Len(r.diags) = 1 /\ r.ret = 0

C10_ChannelRoundTrip ==
    /\ \A r \in Calls("GetPixelFormatForChannels") :
           /\ \A s \in Calls("GetTexelComponentCount") :
                  s.args[1] = r.ret
                     => /\ r.args[1] \in 1..4
                              => s.ret = r.args[1] /\ Silent(s)
                        /\ r.ret = PixelFormat_Unknown
                              => s.ret = 0 /\ Asserted(s)
           /\ \A s \in Calls("GetInternalFormatForChannels8") :
                  s.args = r.args
                     => (r.ret = PixelFormat_Unknown
                            <=> s.ret = InternalFormat_Unknown)
           /\ r.args[1] \in 1..4 => r.ret # PixelFormat_Unknown

\* One caller mapped 4 channels to a format, the other counted it.
C10_Witness ==
    \E r \in Calls("GetPixelFormatForChannels") :
        \E s \in Calls("GetTexelComponentCount") :
            r.args = <<4>> /\ s.args = <<r.ret>> /\ s.ret = 4
====
